---- MODULE Spec2Model ----
(***************************************************************************)
(* Model of the review tracker component (src/src/main.ts) and its types   *)
(* (src/unnamed/part_000): the aggregation formatReviewData, its caller    *)
(* fetchReviewData and the status function getStatus.                      *)
(*                                                                         *)
(* JavaScript values are modelled as follows.                              *)
(*   - A plain object is the sequence of its own properties in creation    *)
(*     order, each a record [key, value]; its keys are strings, modelled   *)
(*     as sequences of characters, so that a number used as a key goes     *)
(*     through the number-to-string conversion and back.                   *)
(*   - null is the empty sequence <<>> and a non-null value v is <<v>>     *)
(*     wherever the code allows both (reviewData, the response body).      *)
(*   - 0 is the falsy number: a date field holding 0 reads as unset.       *)
(*                                                                         *)
(* calls is the record of the calls of fetchReviewData other than the one  *)
(* that pc, data, i and groupedEvents follow: the calls that have ended    *)
(* (SpecRerun) or the calls awaiting their response (SpecOverlap).  It is  *)
(* empty where a single call is followed.                                  *)
(***************************************************************************)
EXTENDS Integers, Sequences, FiniteSets, TLC

VARIABLES uuid, reviewData, isLoading, error, pc, data, i, groupedEvents,
          reviewer, status, calls

vars == <<uuid, reviewData, isLoading, error, pc, data, i, groupedEvents,
          reviewer, status, calls>>

(***************************************************************************)
(* Bounds of the model.                                                    *)
(***************************************************************************)
MaxLen == 2
MaxDate == 1
MaxRevision == 1
MaxId == 1

Dates == -1..MaxDate
RevisionNumbers == -1..MaxRevision
ReviewerIds == -2..MaxId

ReviewEventType == {"REVIEWER_INVITED", "REVIEWER_ACCEPTED", "REVIEWER_COMPLETED"}

ReviewEvent == [Date : Dates, Event : ReviewEventType, Revision : RevisionNumbers, Id : ReviewerIds]

Manuscript == [Uuid |-> "u", CorrespondingAuthor |-> "author", FirstAuthor |-> "first",
               JournalAcronym |-> "JA", JournalName |-> "journal", LastUpdated |-> 7,
               ManuscriptTitle |-> "title", SubmissionDate |-> 5]

ReviewData(events) == [Uuid |-> Manuscript.Uuid,
                       CorrespondingAuthor |-> Manuscript.CorrespondingAuthor,
                       FirstAuthor |-> Manuscript.FirstAuthor,
                       JournalAcronym |-> Manuscript.JournalAcronym,
                       JournalName |-> Manuscript.JournalName,
                       LastUpdated |-> Manuscript.LastUpdated,
                       ManuscriptTitle |-> Manuscript.ManuscriptTitle,
                       SubmissionDate |-> Manuscript.SubmissionDate,
                       ReviewEvents |-> events]

null == <<>>

ReviewerData == [Id : ReviewerIds, InvitedDate : Dates, AcceptedDate : Dates,
                 CompletedDate : Dates, LastUpdated : Dates, Collapsed : BOOLEAN]

(***************************************************************************)
(* Numbers as property keys: Number::toString and the Number() conversion. *)
(***************************************************************************)
Digits == <<"0", "1", "2", "3", "4", "5", "6", "7", "8", "9">>

RECURSIVE NatToString(_)
NatToString(n) ==
    IF n < 10 THEN <<Digits[n + 1]>>
    ELSE Append(NatToString(n \div 10), Digits[(n % 10) + 1])

NumberToString(n) == IF n < 0 THEN <<"-">> \o NatToString(0 - n) ELSE NatToString(n)

DigitValue(c) == CHOOSE d \in 0..9 : Digits[d + 1] = c

RECURSIVE StringToNat(_)
StringToNat(s) ==
    IF s = <<>> THEN 0
    ELSE 10 * StringToNat(SubSeq(s, 1, Len(s) - 1)) + DigitValue(s[Len(s)])

Number(s) == IF s[1] = "-" THEN 0 - StringToNat(Tail(s)) ELSE StringToNat(s)

\* A key is an array index when it is the canonical string of an integer in
\* 0 .. 2^32 - 2; the numbers of the model are far below the upper limit.
IsArrayIndex(key) == key[1] # "-"

(***************************************************************************)
(* Plain objects: own properties in creation order.                        *)
(***************************************************************************)
EmptyObject == <<>>

HasProperty(obj, key) == \E j \in 1..Len(obj) : obj[j].key = key

PropertyIndex(obj, key) == CHOOSE j \in 1..Len(obj) : obj[j].key = key

GetProperty(obj, key) == obj[PropertyIndex(obj, key)].value

SetProperty(obj, key, value) ==
    IF HasProperty(obj, key)
    THEN [obj EXCEPT ![PropertyIndex(obj, key)].value = value]
    ELSE Append(obj, [key |-> key, value |-> value])

CompareIndexKeys(a, b) == Number(a.key) - Number(b.key)

\* Variant: descending revision numbers.
CompareRevisionsDescending(a, b) == Number(b.key) - Number(a.key)

\* Line 93: the comparator of the revision entries.
CompareRevisions(a, b) == Number(a.key) - Number(b.key)

\* Variant: most recently updated first.
CompareLastUpdatedDescending(a, b) == b.LastUpdated - a.LastUpdated

\* Variant: equal LastUpdated ordered by descending reviewer id.
CompareLastUpdatedThenId(a, b) ==
    IF a.LastUpdated # b.LastUpdated THEN a.LastUpdated - b.LastUpdated ELSE b.Id - a.Id

\* Line 98: the comparator of the reviewers of a revision.
CompareLastUpdated(a, b) == a.LastUpdated - b.LastUpdated

\* A comparator function passed to sort, named by a tag.
Compare(comparator, a, b) ==
    CASE comparator = "revisions" -> CompareRevisions(a, b)
      [] comparator = "lastUpdated" -> CompareLastUpdated(a, b)
      [] comparator = "indexKeys" -> CompareIndexKeys(a, b)

\* One insertion of the stable sort: x goes after the elements that do not
\* compare greater than it.
SortedInsert(sorted, x, comparator) ==
    LET greater == {j \in 1..Len(sorted) : Compare(comparator, sorted[j], x) > 0}
        p == IF greater = {} THEN Len(sorted) + 1
             ELSE CHOOSE j \in greater : \A k \in greater : j <= k
    IN  SubSeq(sorted, 1, p - 1) \o <<x>> \o SubSeq(sorted, p, Len(sorted))

\* Array.prototype.sort with a comparator: a stable sort.
RECURSIVE ArraySort(_, _)
ArraySort(arr, comparator) ==
    IF arr = <<>> THEN <<>>
    ELSE SortedInsert(ArraySort(SubSeq(arr, 1, Len(arr) - 1), comparator),
                      arr[Len(arr)], comparator)

\* Variant: every key in creation order, array indices included.
OwnPropertyEntriesInCreationOrder(obj) == obj

\* OrdinaryOwnPropertyKeys: the array-index keys in ascending numeric order,
\* then the other string keys in creation order.
OwnPropertyEntries(obj) ==
    LET IsIndex(p) == IsArrayIndex(p.key)
        IsString(p) == ~IsArrayIndex(p.key)
    IN  ArraySort(SelectSeq(obj, IsIndex), "indexKeys") \o SelectSeq(obj, IsString)

ObjectEntries(obj) == OwnPropertyEntries(obj)

ObjectValues(obj) ==
    LET entries == OwnPropertyEntries(obj)
    IN  [j \in 1..Len(entries) |-> entries[j].value]

(***************************************************************************)
(* formatReviewData                                                         *)
(***************************************************************************)
NewReviewer(reviewerId) ==
    [Id |-> reviewerId, InvitedDate |-> 0, AcceptedDate |-> 0, CompletedDate |-> 0,
     LastUpdated |-> 0, Collapsed |-> TRUE]

\* Variant: a stage field is only overwritten by a later timestamp.
UpdateReviewerMaxWins(r, event) ==
    LET r1 == IF event.Event = "REVIEWER_INVITED" /\ event.Date > r.InvitedDate
              THEN [r EXCEPT !.InvitedDate = event.Date] ELSE r
        r2 == IF event.Event = "REVIEWER_ACCEPTED" /\ event.Date > r1.AcceptedDate
              THEN [r1 EXCEPT !.AcceptedDate = event.Date] ELSE r1
        r3 == IF event.Event = "REVIEWER_COMPLETED" /\ event.Date > r2.CompletedDate
              THEN [r2 EXCEPT !.CompletedDate = event.Date] ELSE r2
    IN  IF event.Date > r3.LastUpdated THEN [r3 EXCEPT !.LastUpdated = event.Date] ELSE r3

\* Lines 85-89: the field of the event's kind is overwritten, LastUpdated
\* only grows.
UpdateReviewer(r, event) ==
    LET r1 == IF event.Event = "REVIEWER_INVITED"
              THEN [r EXCEPT !.InvitedDate = event.Date] ELSE r
        r2 == IF event.Event = "REVIEWER_ACCEPTED"
              THEN [r1 EXCEPT !.AcceptedDate = event.Date] ELSE r1
        r3 == IF event.Event = "REVIEWER_COMPLETED"
              THEN [r2 EXCEPT !.CompletedDate = event.Date] ELSE r2
    IN  IF event.Date > r3.LastUpdated THEN [r3 EXCEPT !.LastUpdated = event.Date] ELSE r3

\* Variant: the reviewer is looked up by its id alone, in the bucket of the
\* first revision seen.
ForEachBodyByReviewerOnly(grouped, event) ==
    LET revision == IF grouped = EmptyObject THEN NumberToString(event.Revision)
                    ELSE grouped[1].key
        reviewerId == NumberToString(event.Id)
        g1 == IF ~HasProperty(grouped, revision)
              THEN SetProperty(grouped, revision, EmptyObject) ELSE grouped
        m == GetProperty(g1, revision)
        m1 == IF ~HasProperty(m, reviewerId)
              THEN SetProperty(m, reviewerId, NewReviewer(event.Id)) ELSE m
    IN  SetProperty(g1, revision,
                    SetProperty(m1, reviewerId,
                                UpdateReviewer(GetProperty(m1, reviewerId), event)))

\* Variant: one reviewer object per reviewer id, shared by the revisions, so
\* an event updates the reviewer under every revision that lists it.
ForEachBodySharedReviewer(grouped, event) ==
    LET revision == NumberToString(event.Revision)
        reviewerId == NumberToString(event.Id)
        g1 == IF ~HasProperty(grouped, revision)
              THEN SetProperty(grouped, revision, EmptyObject) ELSE grouped
        m == GetProperty(g1, revision)
        m1 == IF ~HasProperty(m, reviewerId)
              THEN SetProperty(m, reviewerId, NewReviewer(event.Id)) ELSE m
        g2 == SetProperty(g1, revision, m1)
    IN  [g \in 1..Len(g2) |->
            [key |-> g2[g].key,
             value |-> IF HasProperty(g2[g].value, reviewerId)
                       THEN SetProperty(g2[g].value, reviewerId,
                                UpdateReviewer(GetProperty(g2[g].value, reviewerId), event))
                       ELSE g2[g].value]]

\* The body of the forEach callback, lines 67-89.
ForEachBody(grouped, event) ==
    LET revision == NumberToString(event.Revision)
        reviewerId == NumberToString(event.Id)
        g1 == IF ~HasProperty(grouped, revision)
              THEN SetProperty(grouped, revision, EmptyObject) ELSE grouped
        m == GetProperty(g1, revision)
        m1 == IF ~HasProperty(m, reviewerId)
              THEN SetProperty(m, reviewerId, NewReviewer(event.Id)) ELSE m
    IN  SetProperty(g1, revision,
                    SetProperty(m1, reviewerId,
                                UpdateReviewer(GetProperty(m1, reviewerId), event)))

\* Lines 92-101.
SortedRevisions(grouped) ==
    LET entries == ArraySort(ObjectEntries(grouped), "revisions")
    IN  [j \in 1..Len(entries) |->
            [Id |-> Number(entries[j].key),
             Reviewers |-> ArraySort(ObjectValues(entries[j].value), "lastUpdated"),
             Collapsed |-> TRUE]]

\* Variant: the two dates of the manuscript copied into each other's field.
FormattedReviewDataDatesSwapped(rd, grouped) ==
    [CorrespondingAuthor |-> rd.CorrespondingAuthor,
     JournalAcronym |-> rd.JournalAcronym,
     JournalName |-> rd.JournalName,
     LastUpdated |-> rd.SubmissionDate,
     ManuscriptTitle |-> rd.ManuscriptTitle,
     SubmissionDate |-> rd.LastUpdated,
     Revisions |-> SortedRevisions(grouped)]

\* Lines 103-111.
FormattedReviewData(rd, grouped) ==
    [CorrespondingAuthor |-> rd.CorrespondingAuthor,
     JournalAcronym |-> rd.JournalAcronym,
     JournalName |-> rd.JournalName,
     LastUpdated |-> rd.LastUpdated,
     ManuscriptTitle |-> rd.ManuscriptTitle,
     SubmissionDate |-> rd.SubmissionDate,
     Revisions |-> SortedRevisions(grouped)]

RECURSIVE ForEach(_, _)
ForEach(grouped, events) ==
    IF events = <<>> THEN grouped
    ELSE ForEach(ForEachBody(grouped, Head(events)), Tail(events))

\* The whole function on a response body (null or <<ReviewData>>).
formatReviewData(body) ==
    IF body = null THEN null
    ELSE <<FormattedReviewData(body[1], ForEach(EmptyObject, body[1].ReviewEvents))>>

(***************************************************************************)
(* getStatus                                                                *)
(***************************************************************************)
Truthy(n) == n # 0

\* Variant: the stages are tested in lifecycle order.
getStatusEarliestStage(r) ==
    IF Truthy(r.InvitedDate) THEN "Invited"
    ELSE IF Truthy(r.AcceptedDate) THEN "Accepted"
    ELSE IF Truthy(r.CompletedDate) THEN "Completed"
    ELSE "Unknown"

getStatus(r) ==
    IF Truthy(r.CompletedDate) THEN "Completed"
    ELSE IF Truthy(r.AcceptedDate) THEN "Accepted"
    ELSE IF Truthy(r.InvitedDate) THEN "Invited"
    ELSE "Unknown"

(***************************************************************************)
(* The component: state after setup, and its handlers.                     *)
(***************************************************************************)
NoReviewer == NewReviewer(0)

Init ==
    /\ uuid = ""
    /\ reviewData = null
    /\ isLoading = FALSE
    /\ error = ""
    /\ pc = "idle"
    /\ data = null
    /\ i = 1
    /\ groupedEvents = EmptyObject
    /\ reviewer = NoReviewer
    /\ status = ""
    /\ calls = <<>>

\* v-model="uuid": the user types the identifier.
InputUuid ==
    /\ pc \in {"idle", "done"}
    /\ uuid = ""
    /\ uuid' = "u"
    /\ UNCHANGED <<reviewData, isLoading, error, pc, data, i, groupedEvents, reviewer, status, calls>>

\* fetchReviewData, lines 116-126: up to the await of the request.  With an
\* empty uuid the handler alerts and returns (117-120), changing no state.
\* The locals of the new call (data, i, groupedEvents) start afresh, and the
\* template shows no reviewer while reviewData is null.
FetchReviewData ==
    /\ pc \in {"idle", "done"}
    /\ uuid # ""
    /\ error' = ""
    /\ reviewData' = null
    /\ isLoading' = TRUE
    /\ pc' = "fetch"
    /\ data' = null
    /\ i' = 1
    /\ groupedEvents' = EmptyObject
    /\ reviewer' = NoReviewer
    /\ status' = ""
    /\ UNCHANGED <<uuid, calls>>

\* Lines 129, 132-140: the response is not ok, the Error is caught.
ResponseNotOk ==
    /\ pc = "fetch"
    /\ error' = "Failed to fetch data"
    /\ isLoading' = FALSE
    /\ pc' = "done"
    /\ UNCHANGED <<uuid, reviewData, data, i, groupedEvents, reviewer, status, calls>>

\* Lines 130-131, 61-64: the body is parsed and formatReviewData is entered.
ResponseJson ==
    /\ pc = "fetch"
    /\ \/ data' = null
       \/ \E n \in 0..MaxLen : \E events \in [1..n -> ReviewEvent] :
              data' = <<ReviewData(events)>>
    /\ i' = 1
    /\ groupedEvents' = EmptyObject
    /\ pc' = "forEach"
    /\ UNCHANGED <<uuid, reviewData, isLoading, error, reviewer, status, calls>>

\* Line 62, then 131 and 138-140: a null body formats to null.
ReturnNull ==
    /\ pc = "forEach"
    /\ data = null
    /\ reviewData' = null
    /\ isLoading' = FALSE
    /\ pc' = "done"
    /\ UNCHANGED <<uuid, error, data, i, groupedEvents, reviewer, status, calls>>

\* Lines 66-90: one iteration of the forEach.
ForEachStep ==
    /\ pc = "forEach"
    /\ data # null
    /\ i <= Len(data[1].ReviewEvents)
    /\ groupedEvents' = ForEachBody(groupedEvents, data[1].ReviewEvents[i])
    /\ i' = i + 1
    /\ UNCHANGED <<uuid, reviewData, isLoading, error, pc, data, reviewer, status, calls>>

\* Lines 92-113, then 131 and 138-140: the result is built and shown.
Return ==
    /\ pc = "forEach"
    /\ data # null
    /\ i > Len(data[1].ReviewEvents)
    /\ reviewData' = <<FormattedReviewData(data[1], groupedEvents)>>
    /\ isLoading' = FALSE
    /\ pc' = "done"
    /\ UNCHANGED <<uuid, error, data, i, groupedEvents, reviewer, status, calls>>

\* The template, lines 282-300: a reviewer of the shown result is rendered
\* with its status.
RenderStatus ==
    /\ pc = "done"
    /\ reviewData # null
    /\ \E g \in 1..Len(reviewData[1].Revisions) :
          \E j \in 1..Len(reviewData[1].Revisions[g].Reviewers) :
              /\ reviewer' = reviewData[1].Revisions[g].Reviewers[j]
              /\ status' = getStatus(reviewer')
    /\ UNCHANGED <<uuid, reviewData, isLoading, error, pc, data, i, groupedEvents, calls>>

Next ==
    \/ InputUuid
    \/ FetchReviewData
    \/ ResponseNotOk
    \/ ResponseJson
    \/ ReturnNull
    \/ ForEachStep
    \/ Return
    \/ RenderStatus

Spec == Init /\ [][Next]_vars

(***************************************************************************)
(* getStatus on its own: every reviewer record, then the function applied. *)
(***************************************************************************)
InitStatus ==
    /\ uuid = ""
    /\ reviewData = null
    /\ isLoading = FALSE
    /\ error = ""
    /\ pc = "idle"
    /\ data = null
    /\ i = 1
    /\ groupedEvents = EmptyObject
    /\ reviewer \in ReviewerData
    /\ status = ""
    /\ calls = <<>>

GetStatus ==
    /\ status = ""
    /\ status' = getStatus(reviewer)
    /\ UNCHANGED <<uuid, reviewData, isLoading, error, pc, data, i, groupedEvents, reviewer, calls>>

NextStatus == GetStatus

SpecStatus == InitStatus /\ [][NextStatus]_vars

(***************************************************************************)
(* Responses for several manuscripts with short event lists, the empty     *)
(* list included.                                                          *)
(***************************************************************************)
MaxShortLen == 1

OtherManuscript == [Uuid |-> "v", CorrespondingAuthor |-> "author2", FirstAuthor |-> "first2",
                    JournalAcronym |-> "JB", JournalName |-> "journal2", LastUpdated |-> 9,
                    ManuscriptTitle |-> "title2", SubmissionDate |-> 8]

Manuscripts == {Manuscript, OtherManuscript}

ReviewDataOf(manuscript, events) ==
    [Uuid |-> manuscript.Uuid,
     CorrespondingAuthor |-> manuscript.CorrespondingAuthor,
     FirstAuthor |-> manuscript.FirstAuthor,
     JournalAcronym |-> manuscript.JournalAcronym,
     JournalName |-> manuscript.JournalName,
     LastUpdated |-> manuscript.LastUpdated,
     ManuscriptTitle |-> manuscript.ManuscriptTitle,
     SubmissionDate |-> manuscript.SubmissionDate,
     ReviewEvents |-> events]

\* Variant: the working map is declared outside formatReviewData, so a call
\* goes on with the map the call before it has left.
ResponseJsonOfSharedMap ==
    /\ pc = "fetch"
    /\ \/ data' = null
       \/ \E manuscript \in Manuscripts : \E n \in 0..MaxShortLen :
              \E events \in [1..n -> ReviewEvent] :
                  data' = <<ReviewDataOf(manuscript, events)>>
    /\ i' = 1
    /\ pc' = "forEach"
    /\ UNCHANGED <<uuid, reviewData, isLoading, error, reviewer, status, groupedEvents, calls>>

\* Lines 130-131, 61-64, as ResponseJson, the manuscript varying.
ResponseJsonOf ==
    /\ pc = "fetch"
    /\ \/ data' = null
       \/ \E manuscript \in Manuscripts : \E n \in 0..MaxShortLen :
              \E events \in [1..n -> ReviewEvent] :
                  data' = <<ReviewDataOf(manuscript, events)>>
    /\ i' = 1
    /\ groupedEvents' = EmptyObject
    /\ pc' = "forEach"
    /\ UNCHANGED <<uuid, reviewData, isLoading, error, reviewer, status, calls>>

NextMeta ==
    \/ InputUuid
    \/ FetchReviewData
    \/ ResponseNotOk
    \/ ResponseJsonOf
    \/ ReturnNull
    \/ ForEachStep
    \/ Return
    \/ RenderStatus

SpecMeta == Init /\ [][NextMeta]_vars

(***************************************************************************)
(* One call after another: the button is clicked again once a call has     *)
(* ended.  Nothing in lines 116-126 touches what the ended call has left   *)
(* (its body, its working map); calls notes, for each ended call, the      *)
(* body it formatted and what it showed.                                   *)
(***************************************************************************)
MaxReruns == 1

FetchReviewDataAgain ==
    /\ pc \in {"idle", "done"}
    /\ uuid # ""
    /\ IF pc = "done"
       THEN /\ Len(calls) < MaxReruns
            /\ calls' = Append(calls, [body |-> data, reviewData |-> reviewData,
                                       error |-> error])
       ELSE calls' = calls
    /\ error' = ""
    /\ reviewData' = null
    /\ isLoading' = TRUE
    /\ pc' = "fetch"
    /\ reviewer' = NoReviewer
    /\ status' = ""
    /\ UNCHANGED <<uuid, data, i, groupedEvents>>

NextRerun ==
    \/ InputUuid
    \/ FetchReviewDataAgain
    \/ ResponseNotOk
    \/ ResponseJsonOf
    \/ ReturnNull
    \/ ForEachStep
    \/ Return

SpecRerun == Init /\ [][NextRerun]_vars

(***************************************************************************)
(* Overlapping calls: the button stays enabled while a request is awaited, *)
(* and onMounted may start a call of its own.  Each call of calls is at    *)
(* its first await (pc "fetch"), at its second (pc "json") or has ended    *)
(* (pc "done"), and notes what it has assigned to reviewData and error     *)
(* since its start.  Here pc follows onMounted: "idle" while it awaits the *)
(* router, "done" after it.  A continuation after an await runs to the     *)
(* next await or to the end of the handler without interruption.           *)
(***************************************************************************)
MaxCalls == 2

\* Lines 121-126: the start of a call, up to the await of the request.
CallStarted ==
    /\ Len(calls) < MaxCalls
    /\ error' = ""
    /\ reviewData' = null
    /\ isLoading' = TRUE
    /\ calls' = Append(calls, [pc |-> "fetch", reviewData |-> null, error |-> ""])

\* Lines 51-58: the router is ready; with a uuid in the query the call starts.
OnMounted ==
    /\ pc = "idle"
    /\ pc' = "done"
    /\ \/ UNCHANGED <<uuid, reviewData, isLoading, error, calls>>
       \/ uuid' = "u" /\ CallStarted
    /\ UNCHANGED <<data, i, groupedEvents, reviewer, status>>

\* @click, lines 116-126; with an empty uuid the handler changes no state.
ClickFetchReviewData ==
    /\ uuid # ""
    /\ CallStarted
    /\ UNCHANGED <<uuid, pc, data, i, groupedEvents, reviewer, status>>

\* Lines 126-130: the response of a call is ok, its body is awaited.
AwaitFetchOk ==
    \E c \in 1..Len(calls) :
        /\ calls[c].pc = "fetch"
        /\ calls' = [calls EXCEPT ![c].pc = "json"]
        /\ UNCHANGED <<uuid, reviewData, isLoading, error, pc, data, i, groupedEvents,
                       reviewer, status>>

\* Lines 129, 132-140: the response of a call is not ok.
AwaitFetchNotOk ==
    \E c \in 1..Len(calls) :
        /\ calls[c].pc = "fetch"
        /\ error' = "Failed to fetch data"
        /\ isLoading' = FALSE
        /\ calls' = [calls EXCEPT ![c].pc = "done", ![c].error = error']
        /\ UNCHANGED <<uuid, reviewData, pc, data, i, groupedEvents, reviewer, status>>

\* Lines 130, 132-140: the body of a call is no JSON, the SyntaxError is caught.
AwaitJsonFails ==
    \E c \in 1..Len(calls) :
        /\ calls[c].pc = "json"
        /\ error' = "Unexpected end of JSON input"
        /\ isLoading' = FALSE
        /\ calls' = [calls EXCEPT ![c].pc = "done", ![c].error = error']
        /\ UNCHANGED <<uuid, reviewData, pc, data, i, groupedEvents, reviewer, status>>

\* Lines 130-131, 138-140: the body of a call is parsed, formatted and shown.
AwaitJson ==
    \E c \in 1..Len(calls) :
        /\ calls[c].pc = "json"
        /\ \/ reviewData' = formatReviewData(null)
           \/ \E manuscript \in Manuscripts : \E n \in 0..MaxShortLen :
                  \E events \in [1..n -> ReviewEvent] :
                      reviewData' = formatReviewData(<<ReviewDataOf(manuscript, events)>>)
        /\ calls' = [calls EXCEPT ![c].pc = "done", ![c].reviewData = reviewData']
        /\ isLoading' = FALSE
        /\ UNCHANGED <<uuid, error, pc, data, i, groupedEvents, reviewer, status>>

NextOverlap ==
    \/ InputUuid
    \/ OnMounted
    \/ ClickFetchReviewData
    \/ AwaitFetchOk
    \/ AwaitFetchNotOk
    \/ AwaitJsonFails
    \/ AwaitJson

SpecOverlap == Init /\ [][NextOverlap]_vars

TypeOK ==
    /\ uuid \in {"", "u"}
    /\ isLoading \in BOOLEAN
    /\ pc \in {"idle", "fetch", "forEach", "done"}
    /\ i \in 1..(MaxLen + 1)
    /\ status \in {"", "Completed", "Accepted", "Invited", "Unknown"}

(***************************************************************************)
(* Properties.  Formatted holds when formatReviewData has returned a       *)
(* result for the events of the response body.                             *)
(***************************************************************************)
Formatted == pc = "done" /\ data # null /\ reviewData # null

Events == data[1].ReviewEvents

Revisions == reviewData[1].Revisions

\* The positions <<g, j>> of the reviewer states of the result.
Positions ==
    {<<g, j>> \in (1..Len(Revisions)) \X (1..MaxLen) : j <= Len(Revisions[g].Reviewers)}

ReviewerAt(p) == Revisions[p[1]].Reviewers[p[2]]

KeyAt(p) == <<Revisions[p[1]].Id, ReviewerAt(p).Id>>

KeyOf(event) == <<event.Revision, event.Id>>

EventKeys(events) == {KeyOf(events[n]) : n \in 1..Len(events)}

\* The indices of the events of a key, optionally of one kind.
IndicesOf(events, key) == {n \in 1..Len(events) : KeyOf(events[n]) = key}

IndicesOfKind(events, key, kind) == {n \in IndicesOf(events, key) : events[n].Event = kind}

Maximum(S) == CHOOSE x \in S : \A y \in S : y <= x

Minimum(S) == CHOOSE x \in S : \A y \in S : x <= y

\* An event record the data model rules out: a negative revision number.
Malformed(event) == event.Revision < 0

\* A reviewer id that is an array index as a property key.
IsIndexId(id) == id >= 0

\* Inputs used to show a failure on otherwise ordinary events: revision
\* numbers and reviewer ids not negative, timestamps not negative or positive.
OrdinaryKeys(events) ==
    \A n \in 1..Len(events) : ~Malformed(events[n]) /\ IsIndexId(events[n].Id)

DatesFrom(events, least) == \A n \in 1..Len(events) : events[n].Date >= least

\* C1: the reviewer states of the result, over all revision groups, are as
\* many as the distinct (revisionNumber, reviewerId) pairs of the input
\* events, and no pair has two reviewer states.
C1_OneStatePerPair ==
    Formatted =>
        /\ Cardinality(Positions) = Cardinality(EventKeys(Events))
        /\ \A p, q \in Positions : KeyAt(p) = KeyAt(q) => p = q
        /\ {KeyAt(p) : p \in Positions} = EventKeys(Events)

\* Two events of one pair and the same reviewer id under two revisions.
C1_Witness ==
    /\ Formatted
    /\ Len(Events) = 2
    /\ \/ KeyOf(Events[1]) = KeyOf(Events[2])
       \/ Events[1].Id = Events[2].Id /\ Events[1].Revision # Events[2].Revision

\* The date of the last event of the kind for the key, 0 (unset) without one.
LastDate(events, key, kind) ==
    LET S == IndicesOfKind(events, key, kind)
    IN  IF S = {} THEN 0 ELSE events[Maximum(S)].Date

\* C2: each of InvitedDate, AcceptedDate, CompletedDate of a reviewer state
\* is the timestamp of the last event, in input order, of that kind for its
\* key, and unset (0) when there is none, whatever the earlier timestamps.
C2_LastEventWins ==
    Formatted =>
        \A p \in Positions :
            /\ ReviewerAt(p).InvitedDate = LastDate(Events, KeyAt(p), "REVIEWER_INVITED")
            /\ ReviewerAt(p).AcceptedDate = LastDate(Events, KeyAt(p), "REVIEWER_ACCEPTED")
            /\ ReviewerAt(p).CompletedDate = LastDate(Events, KeyAt(p), "REVIEWER_COMPLETED")

\* Two events of one kind and key, the earlier with the larger timestamp.
C2_Witness ==
    /\ Formatted
    /\ Len(Events) = 2
    /\ KeyOf(Events[1]) = KeyOf(Events[2])
    /\ Events[1].Event = Events[2].Event
    /\ Events[1].Date > Events[2].Date
    /\ Events[2].Date # 0

\* The reviewer states of the working map, as <<key, state>> pairs.
Folding == pc \in {"forEach", "done"} /\ data # null

Folded == SubSeq(Events, 1, i - 1)

GroupedStates(grouped) ==
    {<<<<Number(grouped[g].key), Number(grouped[g].value[j].key)>>, grouped[g].value[j].value>> :
        <<g, j>> \in {q \in (1..Len(grouped)) \X (1..MaxLen) : q[2] <= Len(grouped[q[1]].value)}}

\* C3: after every step of the fold, LastUpdated of every reviewer state is
\* the maximum timestamp of the events folded into it so far (stated for
\* events with non-negative revision numbers and reviewer ids).
C3_LastUpdatedIsMaximum ==
    Folding /\ OrdinaryKeys(Events) =>
        \A s \in GroupedStates(groupedEvents) :
            /\ IndicesOf(Folded, s[1]) # {}
            /\ s[2].LastUpdated = Maximum({Folded[n].Date : n \in IndicesOf(Folded, s[1])})

\* C4: within each revision group of the result the reviewers are in
\* non-decreasing order of LastUpdated.
C4_ReviewersAscending ==
    Formatted =>
        \A p, q \in Positions :
            p[1] = q[1] /\ p[2] < q[2] => ReviewerAt(p).LastUpdated <= ReviewerAt(q).LastUpdated

\* Two reviewers of one revision whose key order is not their date order.
C4_Witness ==
    /\ Formatted
    /\ \E p, q \in Positions :
          /\ p[1] = q[1] /\ p[2] < q[2]
          /\ ReviewerAt(p).LastUpdated < ReviewerAt(q).LastUpdated
          /\ ReviewerAt(p).Id > ReviewerAt(q).Id
          /\ ReviewerAt(q).Id >= 0

\* The index of the first event of the key of a reviewer state.
FirstIndex(events, key) == Minimum(IndicesOf(events, key))

\* Two reviewer states of one revision group with equal LastUpdated.
Tied(p, q) ==
    p[1] = q[1] /\ p[2] # q[2] /\ ReviewerAt(p).LastUpdated = ReviewerAt(q).LastUpdated

\* C5 as stated: reviewers of one revision group with equal LastUpdated are
\* in the order in which their first events occur in the input (stated for
\* events with non-negative revision numbers and ids, positive timestamps).
C5_TiesInInputOrder ==
    Formatted /\ OrdinaryKeys(Events) /\ DatesFrom(Events, 1) =>
        \A p, q \in Positions :
            Tied(p, q) /\ p[2] < q[2] =>
                FirstIndex(Events, KeyAt(p)) < FirstIndex(Events, KeyAt(q))

\* The order of the own property keys of a reviewer map: array-index ids
\* ascending, then the other ids by first occurrence.
KeyOrderBefore(events, k1, k2) ==
    \/ IsIndexId(k1[2]) /\ IsIndexId(k2[2]) /\ k1[2] < k2[2]
    \/ IsIndexId(k1[2]) /\ ~IsIndexId(k2[2])
    \/ ~IsIndexId(k1[2]) /\ ~IsIndexId(k2[2])
         /\ FirstIndex(events, k1) < FirstIndex(events, k2)

\* C5 amended: reviewers of one revision group with equal LastUpdated are
\* in the key order of the reviewer map: those whose id is a non-negative
\* integer first, by ascending id, then the others by first occurrence.
C5_TiesInKeyOrder ==
    Formatted =>
        \A p, q \in Positions :
            Tied(p, q) /\ p[2] < q[2] => KeyOrderBefore(Events, KeyAt(p), KeyAt(q))

\* Tied reviewers with non-negative ids whose first events are in
\* descending id order.
C5_Witness ==
    /\ Formatted
    /\ \E p, q \in Positions :
          /\ Tied(p, q) /\ p[2] < q[2]
          /\ IsIndexId(ReviewerAt(p).Id) /\ IsIndexId(ReviewerAt(q).Id)
          /\ FirstIndex(Events, KeyAt(q)) < FirstIndex(Events, KeyAt(p))

\* C6: the revision groups of the result are strictly ascending by
\* revision number, so no revision number appears twice.
C6_RevisionsStrictlyAscending ==
    Formatted =>
        \A g, h \in 1..Len(Revisions) : g < h => Revisions[g].Id < Revisions[h].Id

\* Two revisions whose first events are in descending revision order.
C6_Witness ==
    /\ Formatted
    /\ Len(Revisions) = 2
    /\ Events[1].Revision > Events[2].Revision

\* The permutations of 1..n, and the event list reordered by one.
Reorderings(n) == {f \in [1..n -> 1..n] : \A a, b \in 1..n : f[a] = f[b] => a = b}

Reordered(events, f) == [n \in 1..Len(events) |-> events[f[n]]]

\* The reordering keeps the relative order of the events of every key.
KeepsKeyOrder(events, f) ==
    \A a, b \in 1..Len(events) :
        a < b /\ KeyOf(events[f[a]]) = KeyOf(events[f[b]]) => f[a] < f[b]

SameResultReordered ==
    \A f \in Reorderings(Len(Events)) :
        KeepsKeyOrder(Events, f) =>
            formatReviewData(<<ReviewData(Reordered(Events, f))>>) = reviewData

\* C7 as stated: a reordering of the events that keeps the relative order
\* of the events of every key gives the same result (stated for events with
\* non-negative revision numbers and positive timestamps).
C7_ReorderingKeepsResult ==
    Formatted /\ DatesFrom(Events, 1) /\ (\A n \in 1..Len(Events) : ~Malformed(Events[n])) =>
        SameResultReordered

\* No two reviewers of one revision group have equal LastUpdated and ids
\* that are both no array index.
NoTieOfStringKeys ==
    \A p, q \in Positions :
        Tied(p, q) => IsIndexId(ReviewerAt(p).Id) \/ IsIndexId(ReviewerAt(q).Id)

\* C7 amended: such a reordering gives the same result provided no revision
\* group of the result holds two reviewers with equal LastUpdated whose ids
\* are both outside the non-negative integers.
C7_ReorderingKeepsResultOfIndexIds ==
    Formatted /\ NoTieOfStringKeys => SameResultReordered

\* Two events of different keys in one revision, tied, that can be swapped.
C7_Witness ==
    /\ Formatted
    /\ NoTieOfStringKeys
    /\ Len(Events) = 2
    /\ KeyOf(Events[1]) # KeyOf(Events[2])
    /\ \E p, q \in Positions : Tied(p, q)

\* C8: with a malformed event in the list the aggregation signals an error
\* to the caller and no result is produced (stated for events with
\* non-negative reviewer ids and positive timestamps).
C8_MalformedSignalsInvalidInput ==
    /\ pc = "done" /\ data # null
    /\ \E n \in 1..Len(Events) : Malformed(Events[n])
    /\ \A n \in 1..Len(Events) : IsIndexId(Events[n].Id)
    /\ DatesFrom(Events, 1)
    => error # "" /\ reviewData = null

\* The stage a status stands for.
Stage(s) ==
    CASE s = "Completed" -> 3
      [] s = "Accepted" -> 2
      [] s = "Invited" -> 1
      [] OTHER -> 0

\* C9: during the fold a stage field of a reviewer state that is set is
\* still set after every later event, and the status of the reviewer never
\* moves back to an earlier stage (stated for events with non-negative
\* revision numbers, reviewer ids and timestamps).
C9_FieldsStaySet ==
    [][pc = "forEach" /\ pc' = "forEach" /\ OrdinaryKeys(Events) /\ DatesFrom(Events, 0) =>
        \A s \in GroupedStates(groupedEvents) :
            \E t \in GroupedStates(groupedEvents') :
                /\ t[1] = s[1]
                /\ s[2].InvitedDate # 0 => t[2].InvitedDate # 0
                /\ s[2].AcceptedDate # 0 => t[2].AcceptedDate # 0
                /\ s[2].CompletedDate # 0 => t[2].CompletedDate # 0
                /\ Stage(getStatus(s[2])) <= Stage(getStatus(t[2]))]_vars

\* C10: the status is Completed when CompletedDate is set, else Accepted
\* when AcceptedDate is set, else Invited when InvitedDate is set, else
\* Unknown, whatever the order of the timestamps.
C10_StatusPrecedence ==
    status # "" =>
        /\ reviewer.CompletedDate # 0 => status = "Completed"
        /\ reviewer.CompletedDate = 0 /\ reviewer.AcceptedDate # 0 => status = "Accepted"
        /\ reviewer.CompletedDate = 0 /\ reviewer.AcceptedDate = 0 /\ reviewer.InvitedDate # 0
              => status = "Invited"
        /\ reviewer.CompletedDate = 0 /\ reviewer.AcceptedDate = 0 /\ reviewer.InvitedDate = 0
              => status = "Unknown"

\* A reviewer completed at a timestamp before its invitation and acceptance.
C10_Witness ==
    /\ status = "Completed"
    /\ reviewer.CompletedDate < reviewer.AcceptedDate
    /\ reviewer.CompletedDate < reviewer.InvitedDate
    /\ reviewer.AcceptedDate # 0
    /\ reviewer.InvitedDate # 0

\* C11: for an empty event list the aggregation gives, without an error, a
\* result with no revision group whose author, journal, title, submission
\* date and last-updated date are those of the input.
C11_EmptyListPassesMetadata ==
    pc = "done" /\ data # null /\ Events = <<>> =>
        /\ reviewData # null
        /\ error = ""
        /\ Revisions = <<>>
        /\ reviewData[1].CorrespondingAuthor = data[1].CorrespondingAuthor
        /\ reviewData[1].JournalAcronym = data[1].JournalAcronym
        /\ reviewData[1].JournalName = data[1].JournalName
        /\ reviewData[1].ManuscriptTitle = data[1].ManuscriptTitle
        /\ reviewData[1].SubmissionDate = data[1].SubmissionDate
        /\ reviewData[1].LastUpdated = data[1].LastUpdated

\* The empty list of the second manuscript has been formatted.
C11_Witness ==
    /\ Formatted
    /\ Events = <<>>
    /\ data[1].ManuscriptTitle = OtherManuscript.ManuscriptTitle
    /\ reviewData[1].ManuscriptTitle = OtherManuscript.ManuscriptTitle

\* C12: the result of an aggregation is the function of its event sequence
\* alone: whatever was aggregated before, it is what formatReviewData gives
\* for the body, and the same body aggregated earlier gave the same result.
C12_ResultOfInputAlone ==
    Formatted =>
        /\ reviewData = formatReviewData(data)
        /\ \A c \in 1..Len(calls) :
              calls[c].error = "" /\ calls[c].body = data => calls[c].reviewData = reviewData

\* A body with an event aggregated a second time.
C12_Witness ==
    /\ Formatted
    /\ Events # <<>>
    /\ Len(calls) = 1
    /\ calls[1].error = ""
    /\ calls[1].body = data
    /\ calls[1].reviewData # null

\* C13: every reviewer state of the result sits in exactly one revision
\* group, the one of the revision number of the events folded into it: an
\* event changes no reviewer state under another revision and creates a
\* state only under its own, and the result lists each state of the working
\* map once, under the revision of its map.
C13_StatesBelongToTheirRevision ==
    [][/\ pc = "forEach" /\ pc' = "forEach" =>
            /\ \A s \in GroupedStates(groupedEvents) :
                  s[1][1] # Events[i].Revision => s \in GroupedStates(groupedEvents')
            /\ \A t \in GroupedStates(groupedEvents') :
                  t[1][1] # Events[i].Revision => t \in GroupedStates(groupedEvents)
       /\ pc = "forEach" /\ pc' = "done" /\ data # null =>
            /\ \A p \in Positions' :
                  <<KeyAt(p), ReviewerAt(p)>>' \in GroupedStates(groupedEvents)
            /\ \A s \in GroupedStates(groupedEvents) :
                  \E p \in Positions' : <<KeyAt(p), ReviewerAt(p)>>' = s
            /\ \A p, q \in Positions' :
                  KeyAt(p)' = KeyAt(q)' => p = q]_vars

\* One reviewer id under two revisions, with a different state under each.
C13_Witness ==
    /\ Formatted
    /\ Len(Events) = 2
    /\ Len(Revisions) = 2
    /\ Events[1].Id = Events[2].Id
    /\ Events[1].Revision # Events[2].Revision
    /\ Events[1].Date # Events[2].Date
    /\ \A p, q \in Positions : p # q => ReviewerAt(p) # ReviewerAt(q)

\* C14: every reviewer state of the result has LastUpdated at least its
\* InvitedDate, AcceptedDate and CompletedDate, and LastUpdated is the
\* timestamp of one of the events of its key (stated for events with
\* non-negative revision numbers and reviewer ids).
C14_LastUpdatedIsAnEventDate ==
    Formatted /\ OrdinaryKeys(Events) =>
        \A p \in Positions :
            /\ ReviewerAt(p).LastUpdated >= ReviewerAt(p).InvitedDate
            /\ ReviewerAt(p).LastUpdated >= ReviewerAt(p).AcceptedDate
            /\ ReviewerAt(p).LastUpdated >= ReviewerAt(p).CompletedDate
            /\ \E n \in IndicesOf(Events, KeyAt(p)) :
                  Events[n].Date = ReviewerAt(p).LastUpdated

\* C15: no revision group of the result is empty and no reviewer state of
\* the result has status Unknown (stated for events with non-negative
\* revision numbers, reviewer ids and timestamps).
C15_NoEmptyGroupNoUnknown ==
    Formatted /\ OrdinaryKeys(Events) /\ DatesFrom(Events, 0) =>
        /\ \A g \in 1..Len(Revisions) : Revisions[g].Reviewers # <<>>
        /\ \A p \in Positions : getStatus(ReviewerAt(p)) # "Unknown"

\* All calls started so far have ended.
AllCallsEnded == calls # <<>> /\ \A c \in 1..Len(calls) : calls[c].pc = "done"

\* C16: under any interleaving of overlapping calls, error and reviewData
\* are never both set, and once all calls have ended the reviewData and the
\* error shown are those of the call started last.
C16_LastStartedCallShown ==
    /\ ~(error # "" /\ reviewData # null)
    /\ AllCallsEnded =>
          /\ reviewData = calls[Len(calls)].reviewData
          /\ error = calls[Len(calls)].error

====
